---------------------------- MODULE Spec2Model ----------------------------
(***************************************************************************)
(* Model of collector/procstats.go: the procstats collector of             *)
(* node_exporter.  Byte strings are sequences of one-character strings, so *)
(* that strings.Split, TrimSuffix, TrimSpace, Atoi and bufio.ScanLines are *)
(* computed character by character, as the Go code computes them.          *)
(***************************************************************************)
EXTENDS Integers, Sequences, FiniteSets, TLC

(***************************************************************************)
(* Bounds of the model.                                                    *)
(***************************************************************************)
\* longest status stream, in lines, that the parser specification feeds in
MaxLines == 3

(***************************************************************************)
(* Byte-string helpers (Go standard library, as used by procstats.go).     *)
(***************************************************************************)
Digits == {"0", "1", "2", "3", "4", "5", "6", "7", "8", "9"}

DigitVal(c) ==
    CASE c = "0" -> 0 [] c = "1" -> 1 [] c = "2" -> 2 [] c = "3" -> 3
      [] c = "4" -> 4 [] c = "5" -> 5 [] c = "6" -> 6 [] c = "7" -> 7
      [] c = "8" -> 8 [] c = "9" -> 9

\* unicode.IsSpace restricted to the bytes that occur in the model
IsSpace(c) == c \in {" ", "\t", "\n", "\r"}

\* index of the first occurrence of byte c in s, 0 when there is none
RECURSIVE IndexFrom(_, _, _)
IndexFrom(s, c, i) ==
    IF i > Len(s) THEN 0
    ELSE IF s[i] = c THEN i
    ELSE IndexFrom(s, c, i + 1)

IndexByte(s, c) == IndexFrom(s, c, 1)

\* strings.Split(text, sep) for a one-byte separator: always at least one part
RECURSIVE Split(_, _)
Split(s, sep) ==
    LET i == IndexByte(s, sep)
    IN  IF i = 0 THEN <<s>>
        ELSE <<SubSeq(s, 1, i - 1)>> \o Split(SubSeq(s, i + 1, Len(s)), sep)

\* strings.TrimSuffix(s, suffix)
TrimSuffix(s, suffix) ==
    IF Len(s) >= Len(suffix)
       /\ SubSeq(s, Len(s) - Len(suffix) + 1, Len(s)) = suffix
    THEN SubSeq(s, 1, Len(s) - Len(suffix))
    ELSE s

RECURSIVE TrimLeft(_)
TrimLeft(s) ==
    IF s /= <<>> /\ IsSpace(Head(s)) THEN TrimLeft(Tail(s)) ELSE s

RECURSIVE TrimRight(_)
TrimRight(s) ==
    IF s /= <<>> /\ IsSpace(s[Len(s)]) THEN TrimRight(SubSeq(s, 1, Len(s) - 1))
    ELSE s

\* strings.TrimSpace(s)
TrimSpace(s) == TrimRight(TrimLeft(s))

\* value of a run of decimal digits, most significant first
RECURSIVE DigitsValue(_)
DigitsValue(s) ==
    IF s = <<>> THEN 0
    ELSE 10 * DigitsValue(SubSeq(s, 1, Len(s) - 1)) + DigitVal(s[Len(s)])

\* strconv.Atoi(s): an optional sign, then one or more decimal digits.
\* On a syntax error the returned value is 0 and err is set.
Atoi(s) ==
    LET signed == s /= <<>> /\ Head(s) \in {"+", "-"}
        body   == IF signed THEN Tail(s) ELSE s
        ok     == body /= <<>> /\ \A i \in 1..Len(body) : body[i] \in Digits
    IN  IF ~ok THEN [err |-> TRUE, val |-> 0]
        ELSE [err |-> FALSE,
              val |-> IF signed /\ Head(s) = "-" THEN 0 - DigitsValue(body)
                      ELSE DigitsValue(body)]

\* bufio.ScanLines: drop one trailing carriage return of a token
DropCR(s) ==
    IF s /= <<>> /\ s[Len(s)] = "\r" THEN SubSeq(s, 1, Len(s) - 1) ELSE s

\* one scanner.Scan() with the ScanLines split function on the unread bytes b:
\* more = FALSE at end of input, otherwise the token and the bytes left
ScanLine(b) ==
    LET i == IndexByte(b, "\n")
    IN  IF b = <<>> THEN [more |-> FALSE, text |-> <<>>, rest |-> <<>>]
        ELSE IF i > 0
        THEN [more |-> TRUE, text |-> DropCR(SubSeq(b, 1, i - 1)),
              rest |-> SubSeq(b, i + 1, Len(b))]
        ELSE [more |-> TRUE, text |-> DropCR(b), rest |-> <<>>]

(***************************************************************************)
(* parseProcessStats                                                       *)
(***************************************************************************)
KeyVmRSS == <<"V", "m", "R", "S", "S">>
SuffixKB == <<"k", "B">>

\* stats := make(map[int]int); stats[0] = pid
NewStats(pid) == (0 :> pid)

\* a variant that leaves the unit suffix on the number
ParseLineKeepSuffix(stats, text) ==
    LET procStats == Split(text, ":")
    IN  IF procStats[1] /= KeyVmRSS THEN [panic |-> FALSE, stats |-> stats]
        ELSE IF Len(procStats) < 2 THEN [panic |-> TRUE, stats |-> stats]
        ELSE LET data == procStats[2]
             IN  IF Len(data) < 1 THEN [panic |-> TRUE, stats |-> stats]
                 ELSE LET a == Atoi(TrimSpace(Tail(data)))
                      IN  [panic |-> FALSE, stats |-> (1 :> a.val) @@ stats]

\* a variant that keeps the first resident-memory value it stored
ParseLineFirstWins(stats, text) ==
    LET procStats == Split(text, ":")
    IN  IF procStats[1] /= KeyVmRSS THEN [panic |-> FALSE, stats |-> stats]
        ELSE IF Len(procStats) < 2 THEN [panic |-> TRUE, stats |-> stats]
        ELSE LET data == procStats[2]
             IN  IF Len(data) < 1 THEN [panic |-> TRUE, stats |-> stats]
                 ELSE LET a == Atoi(TrimSpace(TrimSuffix(Tail(data), SuffixKB)))
                      IN  [panic |-> FALSE, stats |-> stats @@ (1 :> a.val)]

\* Body of the scan loop for one line.  A Go run-time panic (index or slice
\* bound out of range) is reported as panic = TRUE.
ParseLine(stats, text) ==
    LET procStats == Split(text, ":")
    IN  IF procStats[1] /= KeyVmRSS THEN [panic |-> FALSE, stats |-> stats]
        ELSE IF Len(procStats) < 2 THEN [panic |-> TRUE, stats |-> stats]
        ELSE LET data == procStats[2]
             IN  IF Len(data) < 1 THEN [panic |-> TRUE, stats |-> stats]
                 ELSE LET a == Atoi(TrimSpace(TrimSuffix(Tail(data), SuffixKB)))
                      IN  [panic |-> FALSE, stats |-> (1 :> a.val) @@ stats]

\* the whole function on reader content b: the loop runs to end of input
RECURSIVE ScanAll(_, _)
ScanAll(stats, b) ==
    LET s == ScanLine(b)
    IN  IF ~s.more THEN [panic |-> FALSE, stats |-> stats]
        ELSE LET p == ParseLine(stats, s.text)
             IN  IF p.panic THEN p ELSE ScanAll(p.stats, s.rest)

parseProcessStats(b, pid) == ScanAll(NewStats(pid), b)

(***************************************************************************)
(* Inputs of the parser specification: status lines, as byte strings.      *)
(***************************************************************************)
Tab == <<"\t">>
Colon == <<":">>
SpaceKB == <<" ", "k", "B">>

\* the well-formed resident-memory values: decimal digits and their number
RssValues ==
    { [digits |-> <<"0">>, n |-> 0],
      [digits |-> <<"5">>, n |-> 5],
      [digits |-> <<"1", "2">>, n |-> 12],
      [digits |-> <<"0", "3">>, n |-> 3] }

\* "VmRSS:<tab><N> kB"
RssLine(digits) == KeyVmRSS \o Colon \o Tab \o digits \o SpaceKB

RssLines == { RssLine(v.digits) : v \in RssValues }

\* lines with another key: the stream's own "Pid:<tab>7", "VmPeak:<tab>9 kB"
OtherLines ==
    { <<"P", "i", "d">> \o Colon \o Tab \o <<"7">>,
      <<"V", "m", "P", "e", "a", "k">> \o Colon \o Tab \o <<"9">> \o SpaceKB }

\* VmRSS lines whose value does not parse: "VmRSS:<tab>abc kB", and
\* "VmRSS:5 kB" (no byte to drop before the number)
MalformedLines ==
    { KeyVmRSS \o Colon \o Tab \o <<"a", "b", "c">> \o SpaceKB,
      KeyVmRSS \o Colon \o <<"5">> \o SpaceKB }

\* "VmRSS" with no colon, and "VmRSS:" with nothing after the colon
TruncatedLines == { KeyVmRSS, KeyVmRSS \o Colon }

StatusLines == RssLines \cup OtherLines \cup MalformedLines \cup TruncatedLines

\* the content of a status file: every line followed by a newline
RECURSIVE JoinLines(_)
JoinLines(ls) ==
    IF ls = <<>> THEN <<>> ELSE Head(ls) \o <<"\n">> \o JoinLines(Tail(ls))

LineSeqs == UNION { [1..k -> StatusLines] : k \in 0..MaxLines }

Pids == {1, 2}

(***************************************************************************)
(* Configuration and file system of the collector.                         *)
(***************************************************************************)
\* strings.Split(*registeredProcesses, ",") for the flag value "hekad,nginx"
registeredProcessesList == <<"hekad", "nginx">>

Names == { registeredProcessesList[i] : i \in 1..Len(registeredProcessesList) }

Absent == [exists |-> FALSE, bytes |-> <<>>]

File(b) == [exists |-> TRUE, bytes |-> b]

\* PID files holding a decimal integer and one terminator byte, with the integer
ValidPidFiles ==
    { [bytes |-> <<"1", "\n">>, n |-> 1],
      [bytes |-> <<"2", "\n">>, n |-> 2] }

\* PID file content that is not a number once the last byte is dropped
MalformedPidBytes == { <<"x", "\n">> }

\* what /var/run/<name>.pid can be: missing, zero-length, valid, malformed
PidFileContents ==
    {Absent, File(<<>>)}
        \cup { File(v.bytes) : v \in ValidPidFiles }
        \cup { File(b) : b \in MalformedPidBytes }

\* what /proc/<pid>/status can be: missing, or a stream with a resident-memory
\* line, without one, with a malformed one, or with a truncated one
StatusContents ==
    { Absent,
      File(JoinLines(<<RssLine(<<"5">>)>>)),
      File(JoinLines(<<<<"P", "i", "d">> \o Colon \o Tab \o <<"7">>>>)),
      File(JoinLines(<<KeyVmRSS \o Colon \o Tab \o <<"a", "b", "c">> \o SpaceKB>>)),
      File(JoinLines(<<KeyVmRSS>>)) }

EmptyMap == [x \in {} |-> 0]

NoResult == [stats |-> EmptyMap, err |-> FALSE]

(***************************************************************************)
(* State.                                                                  *)
(***************************************************************************)
VARIABLES
    plines,    \* parser run: the lines of the reader's content
    ppid,      \* parser run: the pid argument
    pbuf,      \* parser run: bytes the scanner has not read yet
    pstats,    \* parser run: the stats map
    ppc,       \* parser run: "scan", "done" (returned stats, nil), "panicked"
    pidFiles,  \* /var/run/<name>.pid, by name
    procfs,    \* /proc/<pid>/status, by pid
    pc,        \* where the collector is
    idx,       \* Update: index of the next name of registeredProcessesList
    procPID,   \* Update: the name-to-PID map
    procStats, \* getProcessStats: the result map
    todo,      \* getProcessStats: keys of procPID the range loop has not visited
    cur,       \* getProcessStats: key whose stream is open and not yet parsed
    open,      \* getProcessStats: streams opened and not yet closed, by key
    nOpen,     \* getProcessStats: calls of os.Open made by this invocation
    gpsErr,    \* getProcessStats: whether it returned an error
    gauges,    \* c.metrics: the label values of the two GaugeVecs
    sent,      \* what the pass sent to ch
    ret,       \* Update: "none" while running, then "ok" or "error"
    first,     \* orchestrator runs: what the first invocation returned
    calls      \* orchestrator runs: invocations started

pvars == <<plines, ppid, pbuf, pstats, ppc>>

fsvars == <<pidFiles, procfs>>

gpsvars == <<procStats, todo, cur, open, nOpen, gpsErr>>

updvars == <<idx, procPID, gauges, sent, ret>>

orchvars == <<first, calls>>

vars == <<pvars, fsvars, pc, gpsvars, updvars, orchvars>>

\* the collector as NewProcStatsCollector leaves it, before any pass
CollectorIdle ==
    /\ pc = "idle"
    /\ idx = 1
    /\ procPID = EmptyMap
    /\ procStats = EmptyMap
    /\ todo = {}
    /\ cur = ""
    /\ open = {}
    /\ nOpen = 0
    /\ gpsErr = FALSE
    /\ gauges = EmptyMap
    /\ sent = EmptyMap
    /\ ret = "none"

ParserOff ==
    /\ plines = <<>>
    /\ ppid = 0
    /\ pbuf = <<>>
    /\ pstats = EmptyMap
    /\ ppc = "off"

(***************************************************************************)
(* Specification of one call of parseProcessStats, line by line.           *)
(***************************************************************************)
InitParse ==
    /\ plines \in LineSeqs
    /\ ppid \in Pids
    /\ pbuf = JoinLines(plines)
    /\ pstats = NewStats(ppid)
    /\ ppc = "scan"
    /\ pidFiles = [n \in Names |-> Absent]
    /\ procfs = [p \in Pids |-> Absent]
    /\ CollectorIdle
    /\ first = NoResult
    /\ calls = 0

\* one iteration of "for scanner.Scan()"
ParseScan ==
    /\ ppc = "scan"
    /\ ScanLine(pbuf).more
    /\ LET s == ScanLine(pbuf)
           p == ParseLine(pstats, s.text)
       IN  /\ pbuf' = s.rest
           /\ pstats' = p.stats
           /\ ppc' = IF p.panic THEN "panicked" ELSE "scan"
    /\ UNCHANGED <<plines, ppid, fsvars, pc, gpsvars, updvars, orchvars>>

\* scanner.Scan() returns false: return stats, nil
ParseReturn ==
    /\ ppc = "scan"
    /\ ~ScanLine(pbuf).more
    /\ ppc' = "done"
    /\ UNCHANGED <<plines, ppid, pbuf, pstats, fsvars, pc, gpsvars, updvars,
                   orchvars>>

NextParse == ParseScan \/ ParseReturn

SpecParse == InitParse /\ [][NextParse]_vars

(***************************************************************************)
(* getProcessStats                                                         *)
(***************************************************************************)
\* os.Open(procFilePath(strconv.Itoa(pid)) + "/status")
OpenStatus(pid) == IF pid \in DOMAIN procfs THEN procfs[pid] ELSE Absent

\* a variant whose result map outlives the invocation
GpsEntryKeep ==
    /\ procStats' = procStats
    /\ todo' = DOMAIN procPID
    /\ cur' = ""
    /\ open' = {}
    /\ nOpen' = 0
    /\ gpsErr' = FALSE

\* procStats := make(map[string]map[int]int, 0), and the range loop is set up
GpsEntry ==
    /\ procStats' = EmptyMap
    /\ todo' = DOMAIN procPID
    /\ cur' = ""
    /\ open' = {}
    /\ nOpen' = 0
    /\ gpsErr' = FALSE

\* a variant that logs the failure and goes on with the next key
OnOpenErrorContinue(procName) ==
    /\ todo' = todo \ {procName}
    /\ pc' = "gps"
    /\ UNCHANGED <<procStats, cur, open, gpsErr>>

\* what the function does when os.Open fails for key procName: the deferred
\* Close calls run and it returns procStats and the error
OnOpenError(procName) ==
    /\ gpsErr' = TRUE
    /\ open' = {}
    /\ pc' = "gps_ret"
    /\ UNCHANGED <<procStats, todo, cur>>

\* the range loop takes its next key, in an order Go leaves unspecified, and
\* opens the status file of its pid
GpsOpen ==
    /\ pc = "gps"
    /\ \E procName \in todo :
         /\ nOpen' = nOpen + 1
         /\ IF ~OpenStatus(procPID[procName]).exists
            THEN OnOpenError(procName)
            ELSE /\ open' = open \cup {procName}
                 /\ cur' = procName
                 /\ pc' = "gps_parse"
                 /\ UNCHANGED <<procStats, todo, gpsErr>>
    /\ UNCHANGED <<pvars, fsvars, updvars, orchvars>>

\* procStats[procName], err = parseProcessStats(procFile, pid)
GpsParse ==
    /\ pc = "gps_parse"
    /\ LET p == parseProcessStats(OpenStatus(procPID[cur]).bytes, procPID[cur])
       IN  IF p.panic
           THEN /\ pc' = "panicked"
                /\ open' = {}
                /\ UNCHANGED <<procStats, todo, cur>>
           ELSE /\ procStats' = (cur :> p.stats) @@ procStats
                /\ todo' = todo \ {cur}
                /\ cur' = ""
                /\ pc' = "gps"
                /\ UNCHANGED open
    /\ UNCHANGED <<pvars, fsvars, nOpen, gpsErr, updvars, orchvars>>

\* the range loop is over: the deferred Close calls run; return procStats, nil
GpsReturn ==
    /\ pc = "gps"
    /\ todo = {}
    /\ open' = {}
    /\ pc' = "gps_ret"
    /\ UNCHANGED <<pvars, fsvars, procStats, todo, cur, nOpen, gpsErr, updvars,
                   orchvars>>

(***************************************************************************)
(* procstatsCollector.Update                                               *)
(***************************************************************************)
\* one iteration of the loop over registeredProcessesList, on map m
ResolveName(m, procName, file) ==
    IF ~file.exists THEN [panic |-> FALSE, procPID |-> m]
    ELSE IF Len(file.bytes) = 0 THEN [panic |-> TRUE, procPID |-> m]
    ELSE LET a == Atoi(SubSeq(file.bytes, 1, Len(file.bytes) - 1))
         IN  [panic |-> FALSE, procPID |-> (procName :> a.val) @@ m]

\* gauge.WithLabelValues(procName).Set(float64(value)) for every slot k of
\* every record: the label values set in earlier passes stay in the GaugeVec
SetGauges(g, stats) ==
    [ kn \in { <<k, n>> : k \in {0, 1}, n \in Names } \cap
             { x \in { <<k, n>> : k \in {0, 1}, n \in DOMAIN stats } :
                 x[1] \in DOMAIN stats[x[2]] }
        |-> stats[kn[2]][kn[1]] ] @@ g

\* a collection cycle starts: the host calls Update, which finds the file
\* system as it is now; the locals of the previous call are gone
UpdateStart ==
    /\ pc = "idle"
    /\ pidFiles' \in [Names -> PidFileContents]
    /\ procfs' \in [Pids -> StatusContents]
    /\ pc' = "resolve"
    /\ idx' = 1
    /\ procPID' = EmptyMap
    /\ sent' = EmptyMap
    /\ ret' = "none"
    /\ GpsEntry
    /\ UNCHANGED <<pvars, gauges, orchvars>>

UpdateResolve ==
    /\ pc = "resolve"
    /\ idx <= Len(registeredProcessesList)
    /\ LET procName == registeredProcessesList[idx]
           r == ResolveName(procPID, procName, pidFiles[procName])
       IN  /\ procPID' = r.procPID
           /\ pc' = IF r.panic THEN "panicked" ELSE "resolve"
    /\ idx' = idx + 1
    /\ UNCHANGED <<pvars, fsvars, gpsvars, gauges, sent, ret, orchvars>>

\* processStats, err := getProcessStats(procPID)
UpdateCall ==
    /\ pc = "resolve"
    /\ idx > Len(registeredProcessesList)
    /\ pc' = "gps"
    /\ GpsEntry
    /\ UNCHANGED <<pvars, fsvars, updvars, orchvars>>

\* what Update does with an error of getProcessStats: it returns it, and
\* nothing is set or collected
OnStatsError ==
    /\ ret' = "error"
    /\ UNCHANGED <<gauges, sent>>

\* after getProcessStats: return its error, or set the gauges, Collect every
\* metric into ch and return nil
UpdateFinish ==
    /\ pc = "gps_ret"
    /\ IF gpsErr
       THEN OnStatsError
       ELSE /\ gauges' = SetGauges(gauges, procStats)
            /\ sent' = gauges'
            /\ ret' = "ok"
    /\ pc' = "idle"
    /\ UNCHANGED <<pvars, fsvars, gpsvars, idx, procPID, orchvars>>

Init ==
    /\ ParserOff
    /\ pidFiles = [n \in Names |-> Absent]
    /\ procfs = [p \in Pids |-> Absent]
    /\ CollectorIdle
    /\ first = NoResult
    /\ calls = 0

Next ==
    \/ UpdateStart
    \/ UpdateResolve
    \/ UpdateCall
    \/ GpsOpen
    \/ GpsParse
    \/ GpsReturn
    \/ UpdateFinish

Spec == Init /\ [][Next]_vars

(***************************************************************************)
(* Specification of two invocations of getProcessStats on one map and one  *)
(* unchanged file system.                                                  *)
(***************************************************************************)
PidMaps == UNION { [S -> {0} \cup Pids] : S \in SUBSET Names }

InitOrch ==
    /\ ParserOff
    /\ pidFiles = [n \in Names |-> Absent]
    /\ procfs \in [Pids -> StatusContents]
    /\ procPID \in PidMaps
    /\ pc = "gps"
    /\ idx = 1
    /\ procStats = EmptyMap
    /\ todo = DOMAIN procPID
    /\ cur = ""
    /\ open = {}
    /\ nOpen = 0
    /\ gpsErr = FALSE
    /\ gauges = EmptyMap
    /\ sent = EmptyMap
    /\ ret = "none"
    /\ first = NoResult
    /\ calls = 1

\* the first invocation has returned: keep what it returned and invoke again
OrchAgain ==
    /\ pc = "gps_ret"
    /\ calls = 1
    /\ first' = [stats |-> procStats, err |-> gpsErr]
    /\ calls' = 2
    /\ pc' = "gps"
    /\ GpsEntry
    /\ UNCHANGED <<pvars, fsvars, updvars>>

NextOrch == GpsOpen \/ GpsParse \/ GpsReturn \/ OrchAgain

SpecOrch == InitOrch /\ [][NextOrch]_vars

(***************************************************************************)
(* Properties of parseProcessStats, checked under SpecParse.               *)
(***************************************************************************)
\* positions of plines holding a well-formed resident-memory line
RssAt == { i \in 1..Len(plines) : plines[i] \in RssLines }

\* positions of plines holding any line with the key VmRSS and a value
VmRssAt == { i \in 1..Len(plines) : plines[i] \in RssLines \cup MalformedLines }

\* the number a well-formed resident-memory line states
RssNumber(line) == (CHOOSE v \in RssValues : RssLine(v.digits) = line).n

\* exactly one "VmRSS:<tab><N> kB" line, every other line having another key
ExactlyOneRss ==
    /\ Cardinality(RssAt) = 1
    /\ \A i \in 1..Len(plines) : plines[i] \in RssLines \cup OtherLines

Max(S) == CHOOSE x \in S : \A y \in S : y <= x

\* C1: a stream with exactly one line "VmRSS:<tab><N> kB" among lines of other
\* keys is parsed without a failure, and the record returned has slot 0 equal
\* to the pid argument (not the stream's Pid line) and slot 1 equal to N.
C1_SingleRssLine ==
    ExactlyOneRss =>
        /\ ppc /= "panicked"
        /\ pstats[0] = ppid
        /\ ppc = "done" =>
             /\ DOMAIN pstats = {0, 1}
             /\ pstats[1] = RssNumber(plines[CHOOSE i \in RssAt : TRUE])

\* C1 witness: a returned record for a three-line stream with the stream's own
\* Pid line, another key and one resident-memory line stating 12
C1_Witness ==
    /\ ppc = "done"
    /\ ExactlyOneRss
    /\ Len(plines) = 3
    /\ plines[1] \notin RssLines
    /\ plines[2] = RssLine(<<"1", "2">>)
    /\ pstats = (0 :> ppid) @@ (1 :> 12)

\* C2: a stream with no VmRSS line, or whose VmRSS values are malformed,
\* yields a record holding slot 0 only (slot 1 absent, not 0), after the
\* whole stream has been scanned.
C2_MalformedLeavesSlotAbsent ==
    (/\ ppc = "done"
     /\ \A i \in 1..Len(plines) : plines[i] \in OtherLines \cup MalformedLines)
        => (pbuf = <<>> /\ DOMAIN pstats = {0})

\* C6: with more than one VmRSS line, the whole stream is scanned and slot 1
\* of the returned record is the number of the last VmRSS line in stream
\* order (that line being well formed), whatever the earlier ones hold.
C6_LastRssWins ==
    (/\ ppc = "done"
     /\ Cardinality(VmRssAt) >= 2
     /\ Max(VmRssAt) \in RssAt)
        => /\ pbuf = <<>>
           /\ 1 \in DOMAIN pstats
           /\ pstats[1] = RssNumber(plines[Max(VmRssAt)])

\* C6 witness: two well-formed VmRSS lines stating different numbers, the
\* first 12 and the last 5, and the record returned holds 5
C6_Witness ==
    /\ ppc = "done"
    /\ Len(plines) = 3
    /\ plines[1] = RssLine(<<"1", "2">>)
    /\ plines[3] = RssLine(<<"5">>)
    /\ pstats[1] = 5

(***************************************************************************)
(* Properties of Update and getProcessStats, checked under Spec.           *)
(***************************************************************************)
\* names whose PID file holds an integer and one terminator byte
ValidNames ==
    { n \in Names : pidFiles[n].exists
                    /\ \E v \in ValidPidFiles : v.bytes = pidFiles[n].bytes }

\* the integer a valid PID file states
PidNumber(n) == (CHOOSE v \in ValidPidFiles : v.bytes = pidFiles[n].bytes).n

\* names whose PID file is readable and does not hold an integer
MalformedNames ==
    { n \in Names : pidFiles[n].exists /\ pidFiles[n].bytes \in MalformedPidBytes }

\* the resolution loop of the running or last pass has visited every name
Resolved == pc \in {"gps", "gps_parse", "gps_ret"} \/ (pc = "idle" /\ ret /= "none")

\* names of the label values a pass sent for metric k
SentFor(k) == { n \in Names : <<k, n>> \in DOMAIN sent }

\* C3: a name whose PID file is readable but malformed is skipped: it gets no
\* entry in the name-to-PID map and no status stream is opened for it, and
\* the names with a valid PID file and a status file are still reported.
C3_MalformedPidSkipped ==
    /\ \A n \in MalformedNames : n \notin DOMAIN procPID /\ n \notin open
    /\ (/\ pc = "idle"
        /\ ret /= "none"
        /\ MalformedNames /= {}
        /\ Names = MalformedNames \cup ValidNames
        /\ \A n \in ValidNames :
             /\ OpenStatus(PidNumber(n)).exists
             /\ ~parseProcessStats(OpenStatus(PidNumber(n)).bytes, 0).panic)
           => (ret = "ok" /\ ValidNames \subseteq SentFor(0))

\* C4: when os.Open fails for a resolved process, getProcessStats makes no
\* further Open call and returns the error with exactly the records of the
\* processes handled before it; Update then returns an error and sends
\* nothing.  No failed Open is passed over.
C4_OpenFailureAborts ==
    /\ (pc = "gps_ret" /\ gpsErr) =>
         /\ nOpen = Cardinality(DOMAIN procStats) + 1
         /\ DOMAIN procStats = DOMAIN procPID \ todo
         /\ \A n \in DOMAIN procStats : OpenStatus(procPID[n]).exists
         /\ \E n \in todo : ~OpenStatus(procPID[n]).exists
    /\ (pc = "gps_ret" /\ ~gpsErr) =>
         \A n \in DOMAIN procPID : OpenStatus(procPID[n]).exists
    /\ (pc = "idle" /\ gpsErr) => (ret = "error" /\ sent = EmptyMap)
    /\ (pc = "idle" /\ ret = "error") => gpsErr

\* C4 witness: a pass that ended in an error after one process had been
\* handled, with nothing sent although earlier passes had set gauges
C4_Witness ==
    /\ pc = "idle"
    /\ ret = "error"
    /\ Cardinality(DOMAIN procStats) = 1
    /\ Cardinality(DOMAIN procPID) = 2
    /\ gauges /= EmptyMap
    /\ sent = EmptyMap

\* C5: the name-to-PID map built by Update has exactly the names with a valid
\* PID file, each mapped to its file's integer; a name whose PID file is
\* missing has no entry and no record, and causes no error.
C5_ResolvesExactlyValidNames ==
    Resolved =>
        /\ DOMAIN procPID = ValidNames
        /\ \A n \in ValidNames : procPID[n] = PidNumber(n)
        /\ \A n \in Names : ~pidFiles[n].exists => n \notin DOMAIN procStats

\* C7: what a successful pass sends is of that pass only: a pid observation
\* for exactly the processes resolved in the pass, a memory observation for
\* exactly those whose record has slot 1 in the pass.
C7_OnlyThisPass ==
    (pc = "idle" /\ ret = "ok") =>
        /\ SentFor(0) = DOMAIN procPID
        /\ SentFor(1) = { n \in DOMAIN procStats : 1 \in DOMAIN procStats[n] }

\* C9: at most one status stream is open at any moment, and no stream is
\* open once getProcessStats has returned.
C9_OneStreamAtATime ==
    /\ Cardinality(open) <= 1
    /\ pc \in {"gps_ret", "idle", "resolve"} => open = {}

\* C10: a collection pass never fails at run time, whatever the PID files
\* and the status streams hold.
C10_NeverPanics == pc /= "panicked" /\ ppc /= "panicked"

(***************************************************************************)
(* Properties of repeated invocations, checked under SpecOrch.             *)
(***************************************************************************)
\* C8: the second invocation on the same map and file system returns the
\* same result and the same error outcome as the first, also when a stream
\* cannot be opened.
C8_Idempotent ==
    (pc = "gps_ret" /\ calls = 2) =>
        (procStats = first.stats /\ gpsErr = first.err)

\* C8, amended: the error outcome is the same; without an error the results
\* are identical; with one, each result holds exactly the records of the
\* keys its own invocation visited, and the records both hold are identical.
C8_IdempotentUpToOrder ==
    (pc = "gps_ret" /\ calls = 2) =>
        /\ gpsErr = first.err
        /\ ~gpsErr => procStats = first.stats
        /\ DOMAIN procStats = DOMAIN procPID \ todo
        /\ \A n \in DOMAIN procStats \cap DOMAIN first.stats :
             procStats[n] = first.stats[n]

\* C8 witness: both invocations returned two records and no error
C8_Witness ==
    /\ pc = "gps_ret"
    /\ calls = 2
    /\ ~gpsErr
    /\ Cardinality(DOMAIN procStats) = 2
    /\ procStats = first.stats

=============================================================================
